---- MODULE Spec2Model ----
(***************************************************************************)
(* observable::subject<Tag> (include/observable/subject.hpp).              *)
(*                                                                         *)
(* The subject owns a shared_ptr to its collection_map (functions_) and a  *)
(* shared_ptr to a mutex (mutex_).  subscribe and the unsubscribe action   *)
(* of a subscription first call detail::snapshot, which replaces           *)
(* functions_ by a copy of the map under the mutex, and then change the    *)
(* map functions_ points to.  notify_tagged copies the shared_ptr and      *)
(* calls the collection found under the tag.                               *)
(*                                                                         *)
(* Maps live on a heap of table objects, so that the difference between    *)
(* the handle functions_ and the object it points to is visible.  Every    *)
(* statement of the source that touches shared state is one step of the    *)
(* calling thread.                                                         *)
(***************************************************************************)
EXTENDS Integers, Sequences, FiniteSets, TLC

\* ---------------------------------------------------------------- bounds
NumThreads == 2
MaxSubs == 3
ConcSubs == 2
\* The number of times the subject is moved into another subject object.
MaxMoves == 1

Threads == 1..NumThreads
\* One table per shared_ptr that can exist at once: functions_, the local of
\* every running notify_tagged, and the copy snapshot is making.
TableIds == 1..(NumThreads + 1)
NoTable == 0
MainThread == CHOOSE th \in Threads : \A o \in Threads : th <= o

\* ---------------------------------------------------------------- values
\* Tag = std::string; no_tag is the value-initialised Tag { }.
no_tag == ""
Tags == {no_tag, "A"}
Signatures == {"void(int)", "void(string)"}
Functions == {"f", "g", "h"}
Arguments == {1, 2}

\* function_traits<Function>::normalized of the three observers.
normalized(fn) == IF fn = "h" THEN "void(string)" ELSE "void(int)"

\* ------------------------------------------- detail::function_collection
EmptyCollection == [present |-> FALSE, last_id |-> 0, fns |-> <<>>]
NewCollection == [present |-> TRUE, last_id |-> 0, fns |-> <<>>]

insert_front(coll, sig, sub) ==
    [present |-> TRUE, last_id |-> coll.last_id + 1,
     fns |-> <<[sig |-> sig, id |-> coll.last_id + 1, sub |-> sub]>> \o coll.fns]

\* insert<Signature>(function): a fresh id, the function stored last.
insert(coll, sig, sub) ==
    [present |-> TRUE, last_id |-> coll.last_id + 1,
     fns |-> Append(coll.fns, [sig |-> sig, id |-> coll.last_id + 1, sub |-> sub])]

\* remove(id): drops the function with that id, if any.
remove(coll, id) ==
    [coll EXCEPT !.fns = SelectSeq(@, LAMBDA e : e.id # id)]

\* call_all<Signature>(arguments ...): the stored functions of that
\* signature, in the order they are called.
call_all(coll, sig) ==
    SelectSeq(coll.fns, LAMBDA e : e.sig = sig)

\* ------------------------------------------------------- collection_map
make_shared_empty(m) == [t \in DOMAIN m |-> [present |-> FALSE, last_id |-> 0, fns |-> <<>>]]

make_shared_recount(m) == [t \in DOMAIN m |-> [m[t] EXCEPT !.last_id = Len(m[t].fns)]]

\* std::make_shared<CollectionMap>(*functions): a new map, equal to *functions.
make_shared(m) == [t \in DOMAIN m |-> m[t]]

find_any(m, tag) ==
    IF \E t \in DOMAIN m : m[t].present /\ m[t].fns # <<>>
    THEN m[CHOOSE t \in DOMAIN m : m[t].present /\ m[t].fns # <<>>]
    ELSE m[tag]

\* functions->find(tag): the collection stored under tag; a collection
\* that is not present stands for end(*functions).
find(m, tag) == m[tag]

\* ---------------------------------------------------------------- state
EmptyMap == [t \in Tags |-> EmptyCollection]
FreeSlot == [live |-> FALSE, map |-> EmptyMap]

NoFrame ==
    [op |-> "none", tag |-> no_tag, sig |-> "void(int)", fn |-> "f", arg |-> 1,
     tok |-> 0, id |-> 0, mutex_ptr |-> FALSE, ref |-> NoTable,
     invoked |-> <<>>, known |-> 0, gone |-> {}, again |-> FALSE,
     this |-> 0, untagged |-> FALSE, early |-> {}]

VARIABLES
    owner,       \* the subject object that holds functions_ and mutex_ (0: the one constructed)
    alive,       \* that subject object exists
    functions_,  \* subject::functions_: the table the handle points to
    mutex_,      \* owner of *mutex_ (0: unlocked)
    heap,        \* the collection_map objects
    tokens,      \* the subscriptions subscribe has returned
    unsubscribed,\* the tokens whose unsubscribe action has returned
    pc,          \* position of every thread
    frame,       \* locals of the running call of every thread
    fault        \* "none", or the fault that ended the program

vars == <<owner, alive, functions_, mutex_, heap, tokens, unsubscribed, pc, frame, fault>>

\* The unsubscribe action of token k returns.
Returned(k) == unsubscribed \cup {k}

\* subject() = default: an empty map, an unlocked mutex.
Init ==
    /\ owner = 0
    /\ alive = TRUE
    /\ functions_ = 1
    /\ mutex_ = 0
    /\ heap = [i \in TableIds |-> IF i = 1 THEN [live |-> TRUE, map |-> EmptyMap]
                                           ELSE FreeSlot]
    /\ tokens = <<>>
    /\ unsubscribed = {}
    /\ pc = [th \in Threads |-> "idle"]
    /\ frame = [th \in Threads |-> NoFrame]
    /\ fault = "none"

\* ------------------------------------------------------ shared ownership
\* The tables some shared_ptr points to: functions_ and the local
\* `functions` of every notify_tagged that has loaded it.
Owners(h, p, fr) ==
    ({h} \cup {fr[th].ref : th \in {o \in Threads : p[o] \in {"notify_find", "notify_call", "notify_observer"}}})
        \ {NoTable}

\* A table no shared_ptr points to any more is destroyed.
Release(hp, h, p, fr) ==
    [i \in TableIds |-> IF i \in Owners(h, p, fr) THEN hp[i] ELSE FreeSlot]

\* `collection` (line 145) and `it` (line 119) are plain references into a
\* table: they dangle once the table is destroyed.
Dangling(fr, p, hp) ==
    [th \in Threads |->
        IF /\ p[th] \in {"subscribe_insert", "unsubscribe_remove"}
           /\ fr[th].ref # NoTable
           /\ ~hp[fr[th].ref].live
        THEN [fr[th] EXCEPT !.ref = NoTable]
        ELSE fr[th]]

FreeTable == CHOOSE i \in TableIds : ~heap[i].live /\ \A j \in TableIds : ~heap[j].live => i <= j

Running == fault = "none"

\* ------------------------------------------------------ detail::snapshot
\* std::lock_guard<Mutex> lock { *mutex };
snapshot_lock(th) ==
    /\ Running
    /\ pc[th] = "snapshot_lock"
    /\ IF frame[th].op = "unsubscribe" /\ ~frame[th].mutex_ptr
       THEN /\ fault' = "null mutex"
            /\ UNCHANGED <<mutex_, pc>>
       ELSE /\ mutex_ = 0
            /\ mutex_' = th
            /\ pc' = [pc EXCEPT ![th] = "snapshot_copy"]
            /\ UNCHANGED fault
    /\ UNCHANGED <<owner, alive, functions_, heap, tokens, unsubscribed, frame>>

snapshot_copy_in_place(th) ==
    /\ Running
    /\ pc[th] = "snapshot_copy"
    /\ mutex_' = 0
    /\ pc' = [pc EXCEPT ![th] = IF frame[th].op = "subscribe"
                                THEN "subscribe_index" ELSE "unsubscribe_find"]
    /\ UNCHANGED <<owner, alive, functions_, heap, tokens, unsubscribed, frame, fault>>

\* functions = std::make_shared<CollectionMap>(*functions); then the lock
\* is released.  The copy is the current table from here on.  `functions`
\* is the functions_ of the object the caller named: for a token, the
\* object its lambda captured as `this`, whose handle is empty once the
\* subject was moved from; *functions then reads through a null pointer.
snapshot_copy(th) ==
    /\ Running
    /\ pc[th] = "snapshot_copy"
    /\ IF ~alive \/ frame[th].this # owner
       THEN /\ fault' = IF ~alive THEN "use after free" ELSE "null handle"
            /\ UNCHANGED <<functions_, mutex_, heap, pc, frame>>
       ELSE LET new == FreeTable
                hp == [heap EXCEPT ![new] = [live |-> TRUE, map |-> make_shared(heap[functions_].map)]]
                p == [pc EXCEPT ![th] = IF frame[th].op = "subscribe"
                                        THEN "subscribe_index" ELSE "unsubscribe_find"]
            IN /\ functions_' = new
               /\ mutex_' = 0
               /\ pc' = p
               /\ heap' = Release(hp, new, p, frame)
               /\ frame' = Dangling(frame, p, Release(hp, new, p, frame))
               /\ UNCHANGED fault
    /\ UNCHANGED <<owner, alive, tokens, unsubscribed>>

\* ---------------------------------------------------- subject::subscribe
Subscribing == {th \in Threads : frame[th].op = "subscribe"}

\* subscribe(tag, function): the call, up to snapshot(mutex_, functions_).
subscribe(th, tag, fn) ==
    /\ Running
    /\ alive
    /\ pc[th] = "idle"
    /\ Len(tokens) + Cardinality(Subscribing) < MaxSubs
    /\ pc' = [pc EXCEPT ![th] = "snapshot_lock"]
    /\ frame' = [frame EXCEPT ![th] =
                    [NoFrame EXCEPT !.op = "subscribe", !.tag = tag, !.fn = fn,
                                    !.sig = normalized(fn), !.this = owner]]
    /\ UNCHANGED <<owner, alive, functions_, mutex_, heap, tokens, unsubscribed, fault>>

\* subscribe(function): static Tag const no_tag { };
\* return subscribe(no_tag, function); the call, up to snapshot.
subscribe_untagged(th, fn) ==
    /\ Running
    /\ alive
    /\ pc[th] = "idle"
    /\ Len(tokens) + Cardinality(Subscribing) < MaxSubs
    /\ pc' = [pc EXCEPT ![th] = "snapshot_lock"]
    /\ frame' = [frame EXCEPT ![th] =
                    [NoFrame EXCEPT !.op = "subscribe", !.tag = no_tag, !.fn = fn,
                                    !.sig = normalized(fn), !.this = owner,
                                    !.untagged = TRUE]]
    /\ UNCHANGED <<owner, alive, functions_, mutex_, heap, tokens, unsubscribed, fault>>

\* auto & collection = (*functions_)[tag];
subscribe_index(th) ==
    /\ Running
    /\ pc[th] = "subscribe_index"
    /\ heap' = [heap EXCEPT ![functions_].map[frame[th].tag] =
                    IF @.present THEN @ ELSE NewCollection]
    /\ frame' = [frame EXCEPT ![th].ref = functions_]
    /\ pc' = [pc EXCEPT ![th] = "subscribe_insert"]
    /\ UNCHANGED <<owner, alive, functions_, mutex_, tokens, unsubscribed, fault>>

\* auto id = collection.insert<signature>(function); return subscription {...};
subscribe_insert(th) ==
    /\ Running
    /\ pc[th] = "subscribe_insert"
    /\ frame[th].ref # NoTable
    /\ LET f == frame[th]
           coll == insert(heap[f.ref].map[f.tag], f.sig, Len(tokens) + 1)
       IN /\ heap' = [heap EXCEPT ![f.ref].map[f.tag] = coll]
          /\ tokens' = Append(tokens, [tag |-> f.tag, id |-> coll.last_id,
                                       fn |-> f.fn, sig |-> f.sig,
                                       this |-> f.this, untagged |-> f.untagged])
    /\ pc' = [pc EXCEPT ![th] = "idle"]
    /\ frame' = [frame EXCEPT ![th] = NoFrame]
    /\ UNCHANGED <<owner, alive, functions_, mutex_, unsubscribed, fault>>

\* The same statement when the table `collection` refers to was destroyed
\* by another thread's snapshot: the insert writes to freed memory.  The
\* program faults, or goes on with a subscription no table holds.
subscribe_insert_freed(th) ==
    /\ Running
    /\ pc[th] = "subscribe_insert"
    /\ frame[th].ref = NoTable
    /\ \/ /\ fault' = "use after free"
          /\ UNCHANGED <<tokens, pc, frame>>
       \/ /\ \E id \in 1..MaxSubs :
                tokens' = Append(tokens, [tag |-> frame[th].tag, id |-> id,
                                          fn |-> frame[th].fn, sig |-> frame[th].sig,
                                          this |-> frame[th].this,
                                          untagged |-> frame[th].untagged])
          /\ pc' = [pc EXCEPT ![th] = "idle"]
          /\ frame' = [frame EXCEPT ![th] = NoFrame]
          /\ UNCHANGED fault
    /\ UNCHANGED <<owner, alive, functions_, mutex_, heap, unsubscribed>>

\* ---------------------------------------------------- detail::unsubscribe
\* The mutex is alive while the subject, or a thread inside unsubscribe,
\* holds a shared_ptr to it.
MutexAlive == alive \/ \E th \in Threads : frame[th].mutex_ptr

unsubscribe_unchecked(th, k) ==
    /\ Running
    /\ pc[th] = "idle"
    /\ k \in 1..Len(tokens)
    /\ pc' = [pc EXCEPT ![th] = "snapshot_lock"]
    /\ frame' = [frame EXCEPT ![th] =
                    [NoFrame EXCEPT !.op = "unsubscribe", !.tok = k, !.this = tokens[k].this,
                                    !.tag = tokens[k].tag, !.id = tokens[k].id,
                                    !.mutex_ptr = MutexAlive,
                                    !.again = k \in unsubscribed]]
    /\ UNCHANGED <<owner, alive, functions_, mutex_, heap, tokens, unsubscribed, fault>>

\* The subscription's action: detail::unsubscribe(mutex, functions_, tag, id),
\* up to snapshot(mutex_ptr, functions).
\*   auto const mutex_ptr = mutex.lock(); if(!mutex_ptr) return;
unsubscribe(th, k) ==
    /\ Running
    /\ pc[th] = "idle"
    /\ k \in 1..Len(tokens)
    /\ IF MutexAlive
       THEN /\ pc' = [pc EXCEPT ![th] = "snapshot_lock"]
            /\ frame' = [frame EXCEPT ![th] =
                            [NoFrame EXCEPT !.op = "unsubscribe", !.tok = k, !.this = tokens[k].this,
                                            !.tag = tokens[k].tag, !.id = tokens[k].id,
                                            !.mutex_ptr = TRUE,
                                            !.again = k \in unsubscribed]]
            /\ UNCHANGED unsubscribed
       ELSE /\ pc' = [pc EXCEPT ![th] = "unsubscribe_ret"]
            /\ frame' = [frame EXCEPT ![th] =
                            [NoFrame EXCEPT !.op = "unsubscribe", !.tok = k, !.this = tokens[k].this,
                                            !.tag = tokens[k].tag, !.id = tokens[k].id,
                                            !.again = k \in unsubscribed]]
            /\ unsubscribed' = Returned(k)
    /\ UNCHANGED <<owner, alive, functions_, mutex_, heap, tokens, fault>>

\* auto const it = functions->find(tag); if(it == end(*functions)) return;
unsubscribe_find(th) ==
    /\ Running
    /\ pc[th] = "unsubscribe_find"
    /\ IF find(heap[functions_].map, frame[th].tag).present
       THEN /\ frame' = [frame EXCEPT ![th].ref = functions_]
            /\ pc' = [pc EXCEPT ![th] = "unsubscribe_remove"]
            /\ UNCHANGED unsubscribed
       ELSE /\ frame' = [frame EXCEPT ![th].mutex_ptr = FALSE]
            /\ pc' = [pc EXCEPT ![th] = "unsubscribe_ret"]
            /\ unsubscribed' = Returned(frame[th].tok)
    /\ UNCHANGED <<owner, alive, functions_, mutex_, heap, tokens, fault>>

unsubscribe_erase(th) ==
    /\ Running
    /\ pc[th] = "unsubscribe_remove"
    /\ frame[th].ref # NoTable
    /\ heap' = [heap EXCEPT ![frame[th].ref].map[frame[th].tag] = NewCollection]
    /\ frame' = [frame EXCEPT ![th].mutex_ptr = FALSE]
    /\ pc' = [pc EXCEPT ![th] = "unsubscribe_ret"]
    /\ unsubscribed' = Returned(frame[th].tok)
    /\ UNCHANGED <<owner, alive, functions_, mutex_, tokens, fault>>

unsubscribe_remove_copy(th) ==
    /\ Running
    /\ pc[th] = "unsubscribe_remove"
    /\ frame[th].ref # NoTable
    /\ frame' = [frame EXCEPT ![th].mutex_ptr = FALSE]
    /\ pc' = [pc EXCEPT ![th] = "unsubscribe_ret"]
    /\ unsubscribed' = Returned(frame[th].tok)
    /\ UNCHANGED <<owner, alive, functions_, mutex_, heap, tokens, fault>>

unsubscribe_remove_everywhere(th) ==
    /\ Running
    /\ pc[th] = "unsubscribe_remove"
    /\ frame[th].ref # NoTable
    /\ heap' = [heap EXCEPT ![frame[th].ref].map =
                    [t \in Tags |-> remove(@[t], frame[th].id)]]
    /\ frame' = [frame EXCEPT ![th].mutex_ptr = FALSE]
    /\ pc' = [pc EXCEPT ![th] = "unsubscribe_ret"]
    /\ unsubscribed' = Returned(frame[th].tok)
    /\ UNCHANGED <<owner, alive, functions_, mutex_, tokens, fault>>

\* it->second.remove(id);
unsubscribe_remove(th) ==
    /\ Running
    /\ pc[th] = "unsubscribe_remove"
    /\ frame[th].ref # NoTable
    /\ heap' = [heap EXCEPT ![frame[th].ref].map[frame[th].tag] = remove(@, frame[th].id)]
    /\ frame' = [frame EXCEPT ![th].mutex_ptr = FALSE]
    /\ pc' = [pc EXCEPT ![th] = "unsubscribe_ret"]
    /\ unsubscribed' = Returned(frame[th].tok)
    /\ UNCHANGED <<owner, alive, functions_, mutex_, tokens, fault>>

\* The same statement when `it` points into a destroyed table.
unsubscribe_remove_freed(th) ==
    /\ Running
    /\ pc[th] = "unsubscribe_remove"
    /\ frame[th].ref = NoTable
    /\ \/ /\ fault' = "use after free"
          /\ UNCHANGED <<unsubscribed, pc, frame>>
       \/ /\ frame' = [frame EXCEPT ![th].mutex_ptr = FALSE]
          /\ pc' = [pc EXCEPT ![th] = "unsubscribe_ret"]
          /\ unsubscribed' = Returned(frame[th].tok)
          /\ UNCHANGED fault
    /\ UNCHANGED <<owner, alive, functions_, mutex_, heap, tokens>>

\* The caller has the call's return.
unsubscribe_return(th) ==
    /\ Running
    /\ pc[th] = "unsubscribe_ret"
    /\ pc' = [pc EXCEPT ![th] = "idle"]
    /\ frame' = [frame EXCEPT ![th] = NoFrame]
    /\ UNCHANGED <<owner, alive, functions_, mutex_, heap, tokens, unsubscribed, fault>>

\* ------------------------------------------------ subject::notify_tagged
\* notify_tagged(tag, arguments ...): the call.
notify_tagged(th, tag, sig, arg) ==
    /\ Running
    /\ alive
    /\ pc[th] = "idle"
    /\ pc' = [pc EXCEPT ![th] = "notify_load"]
    /\ frame' = [frame EXCEPT ![th] =
                    [NoFrame EXCEPT !.op = "notify", !.tag = tag, !.sig = sig, !.arg = arg]]
    /\ UNCHANGED <<owner, alive, functions_, mutex_, heap, tokens, unsubscribed, fault>>

notify_untagged_other(th, sig, arg) ==
    /\ Running
    /\ alive
    /\ pc[th] = "idle"
    /\ pc' = [pc EXCEPT ![th] = "notify_load"]
    /\ frame' = [frame EXCEPT ![th] =
                    [NoFrame EXCEPT !.op = "notify", !.tag = "A", !.sig = sig,
                                    !.arg = arg, !.untagged = TRUE]]
    /\ UNCHANGED <<owner, alive, functions_, mutex_, heap, tokens, unsubscribed, fault>>

\* notify_untagged(arguments ...): static Tag const no_tag { };
\* return notify_tagged(no_tag, arguments ...); the call.
notify_untagged(th, sig, arg) ==
    /\ Running
    /\ alive
    /\ pc[th] = "idle"
    /\ pc' = [pc EXCEPT ![th] = "notify_load"]
    /\ frame' = [frame EXCEPT ![th] =
                    [NoFrame EXCEPT !.op = "notify", !.tag = no_tag, !.sig = sig,
                                    !.arg = arg, !.untagged = TRUE]]
    /\ UNCHANGED <<owner, alive, functions_, mutex_, heap, tokens, unsubscribed, fault>>

notify_load_locked(th) ==
    /\ Running
    /\ pc[th] = "notify_load"
    /\ mutex_ = 0
    /\ frame' = [frame EXCEPT ![th].ref = functions_, ![th].known = Len(tokens),
                              ![th].gone = unsubscribed]
    /\ pc' = [pc EXCEPT ![th] = "notify_find"]
    /\ UNCHANGED <<owner, alive, functions_, mutex_, heap, tokens, unsubscribed, fault>>

\* std::shared_ptr<collection_map const> const functions = functions_;
\* known and gone record the subscriptions returned and unsubscribed when
\* the call started.
notify_load(th) ==
    /\ Running
    /\ pc[th] = "notify_load"
    /\ frame' = [frame EXCEPT ![th].ref = functions_, ![th].known = Len(tokens),
                              ![th].gone = unsubscribed]
    /\ pc' = [pc EXCEPT ![th] = "notify_find"]
    /\ UNCHANGED <<owner, alive, functions_, mutex_, heap, tokens, unsubscribed, fault>>

\* The local shared_ptr goes out of scope when the call returns.
NotifyReturn(th, invoked) ==
    LET p == [pc EXCEPT ![th] = "notify_ret"]
        fr == [frame EXCEPT ![th].ref = NoTable, ![th].invoked = invoked]
    IN /\ pc' = p
       /\ heap' = Release(heap, functions_, p, fr)
       /\ frame' = Dangling(fr, p, Release(heap, functions_, p, fr))

call_untyped(coll, sig, arg) ==
    [i \in 1..Len(coll.fns) |-> [sub |-> coll.fns[i].sub, arg |-> arg]]

\* detail::call(collection, arguments ...): call_all<signature>(arguments ...).
call(coll, sig, arg) ==
    [i \in 1..Len(call_all(coll, sig)) |-> [sub |-> call_all(coll, sig)[i].sub, arg |-> arg]]

notify_find_index(th) ==
    /\ Running
    /\ pc[th] = "notify_find"
    /\ heap' = [heap EXCEPT ![frame[th].ref].map[frame[th].tag] =
                    IF @.present THEN @ ELSE NewCollection]
    /\ pc' = [pc EXCEPT ![th] = "notify_call"]
    /\ UNCHANGED <<owner, alive, functions_, mutex_, tokens, unsubscribed, frame, fault>>

\* auto const it = functions->find(tag); if(it == end(*functions)) return;
notify_find(th) ==
    /\ Running
    /\ pc[th] = "notify_find"
    /\ IF find(heap[frame[th].ref].map, frame[th].tag).present
       THEN /\ pc' = [pc EXCEPT ![th] = "notify_call"]
            /\ UNCHANGED <<heap, frame>>
       ELSE NotifyReturn(th, <<>>)
    /\ UNCHANGED <<owner, alive, functions_, mutex_, tokens, unsubscribed, fault>>

\* detail::call(it->second, arguments ...); and the return.
notify_call(th) ==
    /\ Running
    /\ pc[th] = "notify_call"
    /\ NotifyReturn(th, call(find(heap[frame[th].ref].map, frame[th].tag),
                             frame[th].sig, frame[th].arg))
    /\ UNCHANGED <<owner, alive, functions_, mutex_, tokens, unsubscribed, fault>>

\* detail::call(it->second, arguments ...) with observers that call the
\* subject themselves: call_all reaches the next stored function of the
\* table the notify holds and calls it.  early records the observers
\* whose token had been unsubscribed when the dispatch reached them.
notify_next(th) ==
    /\ Running
    /\ pc[th] = "notify_call"
    /\ LET reached == call(find(heap[frame[th].ref].map, frame[th].tag),
                           frame[th].sig, frame[th].arg)
           n == Len(frame[th].invoked) + 1
       IN /\ n <= Len(reached)
          /\ frame' = [frame EXCEPT ![th].invoked = Append(@, reached[n]),
                                    ![th].early = IF reached[n].sub \in unsubscribed
                                                  THEN @ \cup {reached[n].sub} ELSE @]
    /\ pc' = [pc EXCEPT ![th] = "notify_observer"]
    /\ UNCHANGED <<owner, alive, functions_, mutex_, heap, tokens, unsubscribed, fault>>

\* The observer returns once the calls it made on the subject returned.
observer_return(th, inner) ==
    /\ Running
    /\ pc[th] = "notify_observer"
    /\ pc[inner] = "idle"
    /\ pc' = [pc EXCEPT ![th] = "notify_call"]
    /\ UNCHANGED <<owner, alive, functions_, mutex_, heap, tokens, unsubscribed, frame, fault>>

\* call_all has reached every stored function; notify_tagged returns.
notify_done(th) ==
    /\ Running
    /\ pc[th] = "notify_call"
    /\ Len(frame[th].invoked) >= Len(call(find(heap[frame[th].ref].map, frame[th].tag),
                                          frame[th].sig, frame[th].arg))
    /\ NotifyReturn(th, frame[th].invoked)
    /\ UNCHANGED <<owner, alive, functions_, mutex_, tokens, unsubscribed, fault>>

\* The caller has the call's return.
notify_return(th) ==
    /\ Running
    /\ pc[th] = "notify_ret"
    /\ pc' = [pc EXCEPT ![th] = "idle"]
    /\ frame' = [frame EXCEPT ![th] = NoFrame]
    /\ UNCHANGED <<owner, alive, functions_, mutex_, heap, tokens, unsubscribed, fault>>

\* -------------------------------------------------------------- ~subject
\* The subject is destroyed while no call on it is running: functions_
\* and mutex_ release their objects.  Subscriptions stay with their owners.
destroy ==
    /\ Running
    /\ alive
    /\ \A th \in Threads : pc[th] = "idle"
    /\ alive' = FALSE
    /\ functions_' = NoTable
    /\ heap' = [i \in TableIds |-> FreeSlot]
    /\ UNCHANGED <<owner, mutex_, tokens, unsubscribed, pc, frame, fault>>

\* ------------------------------------------------- subject(subject &&)
\* The subject is moved into another subject object while no call on it
\* is running: functions_ and mutex_ now belong to the new object, and the
\* handles of the object moved from are empty.  Tokens keep the `this`
\* their lambda captured.
move ==
    /\ Running
    /\ alive
    /\ \A th \in Threads : pc[th] = "idle"
    /\ owner < MaxMoves
    /\ owner' = owner + 1
    /\ UNCHANGED <<alive, functions_, mutex_, heap, tokens, unsubscribed, pc, frame, fault>>

\* -------------------------------------------------------- specifications
\* One thread, one call at a time.
SeqStep(th) ==
    \/ \E tag \in Tags, fn \in Functions : subscribe(th, tag, fn)
    \/ snapshot_lock(th)
    \/ snapshot_copy(th)
    \/ subscribe_index(th)
    \/ subscribe_insert(th)
    \/ \E k \in 1..MaxSubs : unsubscribe(th, k)
    \/ unsubscribe_find(th)
    \/ unsubscribe_remove(th)
    \/ unsubscribe_return(th)
    \/ \E tag \in Tags, sig \in Signatures, arg \in Arguments : notify_tagged(th, tag, sig, arg)
    \/ notify_load(th)
    \/ notify_find(th)
    \/ notify_call(th)
    \/ notify_return(th)

SeqNext == SeqStep(MainThread) \/ destroy

SeqSpec == Init /\ [][SeqNext]_vars

\* Every thread calls the subject at any time.  The threads subscribe one
\* observer and notify with its signature and one argument value: what differs between the
\* runs is the order of the threads' steps.
ConcFunctions == {"f"}
ConcSignatures == {normalized(fn) : fn \in ConcFunctions}
ConcArguments == {1}

ConcSubscribe(th, tag, fn) ==
    /\ Len(tokens) + Cardinality(Subscribing) < ConcSubs
    /\ subscribe(th, tag, fn)

Step(th) ==
    \/ \E tag \in Tags, fn \in ConcFunctions : ConcSubscribe(th, tag, fn)
    \/ snapshot_lock(th)
    \/ snapshot_copy(th)
    \/ subscribe_index(th)
    \/ subscribe_insert(th)
    \/ subscribe_insert_freed(th)
    \/ \E k \in 1..MaxSubs : unsubscribe(th, k)
    \/ unsubscribe_find(th)
    \/ unsubscribe_remove(th)
    \/ unsubscribe_remove_freed(th)
    \/ unsubscribe_return(th)
    \/ \E tag \in Tags, sig \in ConcSignatures, arg \in ConcArguments : notify_tagged(th, tag, sig, arg)
    \/ notify_load(th)
    \/ notify_find(th)
    \/ notify_call(th)
    \/ notify_return(th)

Next == (\E th \in Threads : Step(th)) \/ destroy

Spec == Init /\ [][Next]_vars

\* One thread changes the subscriptions while another thread notifies.
NotifyThread == MainThread + 1

ChurnStep(th) ==
    \/ \E tag \in Tags, fn \in ConcFunctions : ConcSubscribe(th, tag, fn)
    \/ snapshot_lock(th)
    \/ snapshot_copy(th)
    \/ subscribe_index(th)
    \/ subscribe_insert(th)
    \/ \E k \in 1..MaxSubs : unsubscribe(th, k)
    \/ unsubscribe_find(th)
    \/ unsubscribe_remove(th)
    \/ unsubscribe_return(th)

NotifyStep(th) ==
    \/ notify_load(th)
    \/ notify_find(th)
    \/ notify_call(th)
    \/ notify_return(th)

NotifierStep(th) ==
    \/ \E tag \in Tags, sig \in ConcSignatures, arg \in ConcArguments : notify_tagged(th, tag, sig, arg)
    \/ NotifyStep(th)

ChurnNext ==
    \/ ChurnStep(MainThread)
    \/ NotifierStep(NotifyThread)

ChurnSpec == Init /\ [][ChurnNext]_vars

\* One thread calls the subject through the tagged and the untagged
\* overloads, one call at a time.
UntaggedNext ==
    \/ \E tag \in Tags, fn \in ConcFunctions : subscribe(MainThread, tag, fn)
    \/ \E fn \in ConcFunctions : subscribe_untagged(MainThread, fn)
    \/ snapshot_lock(MainThread)
    \/ snapshot_copy(MainThread)
    \/ subscribe_index(MainThread)
    \/ subscribe_insert(MainThread)
    \/ \E k \in 1..MaxSubs : unsubscribe(MainThread, k)
    \/ unsubscribe_find(MainThread)
    \/ unsubscribe_remove(MainThread)
    \/ unsubscribe_return(MainThread)
    \/ \E sig \in ConcSignatures, arg \in ConcArguments : notify_untagged(MainThread, sig, arg)
    \/ NotifierStep(MainThread)

UntaggedSpec == Init /\ [][UntaggedNext]_vars

\* One thread notifies, and the observers it calls subscribe and
\* unsubscribe from inside their callback.  InnerFrame holds the call an
\* observer makes: the same thread, one level down the stack.
InnerFrame == MainThread + 1

MutateStep(th) ==
    \/ \E tag \in Tags, fn \in ConcFunctions : subscribe(th, tag, fn)
    \/ snapshot_lock(th)
    \/ snapshot_copy(th)
    \/ subscribe_index(th)
    \/ subscribe_insert(th)
    \/ \E k \in 1..MaxSubs : unsubscribe(th, k)
    \/ unsubscribe_find(th)
    \/ unsubscribe_remove(th)
    \/ unsubscribe_return(th)

InnerStep(th, inner) ==
    /\ pc[th] = "notify_observer"
    /\ MutateStep(inner)

ReentrantNext ==
    \/ MutateStep(MainThread)
    \/ \E tag \in Tags, sig \in ConcSignatures, arg \in ConcArguments :
          notify_tagged(MainThread, tag, sig, arg)
    \/ notify_load(MainThread)
    \/ notify_find(MainThread)
    \/ notify_next(MainThread)
    \/ InnerStep(MainThread, InnerFrame)
    \/ observer_return(MainThread, InnerFrame)
    \/ notify_done(MainThread)
    \/ notify_return(MainThread)

ReentrantSpec == Init /\ [][ReentrantNext]_vars

\* One thread calls the subject, which is moved and destroyed between calls.
MoveNext ==
    \/ ChurnStep(MainThread)
    \/ NotifierStep(MainThread)
    \/ move
    \/ destroy

MoveSpec == Init /\ [][MoveNext]_vars

TypeOK ==
    /\ alive \in BOOLEAN
    /\ functions_ \in TableIds \cup {NoTable}
    /\ mutex_ \in Threads \cup {0}
    /\ alive => heap[functions_].live
    /\ Len(tokens) <= MaxSubs
    /\ unsubscribed \subseteq 1..Len(tokens)

\* ----------------------------------------------------------- properties
\* What a notify of the current table would dispatch: per tag, the
\* subscriptions stored, in the order call_all reaches them.
Registered ==
    [t \in Tags |->
        IF alive
        THEN [i \in 1..Len(heap[functions_].map[t].fns) |-> heap[functions_].map[t].fns[i].sub]
        ELSE <<>>]

Range(seq) == {seq[i] : i \in 1..Len(seq)}

\* The calls a returned notify_tagged made to the observer of subscription k.
CallsOf(th, k) == {i \in 1..Len(frame[th].invoked) : frame[th].invoked[i].sub = k}

Matches(th, k) ==
    tokens[k].tag = frame[th].tag /\ tokens[k].sig = frame[th].sig

\* C1: a notify_tagged(t, args) that starts after subscribe(t, f) returned,
\* with f's token not unsubscribed and args of f's normalized signature,
\* has called f exactly once, with args, when it returns.
C1_InvokedExactlyOnce ==
    \A th \in Threads :
        pc[th] = "notify_ret" =>
            \A k \in 1..frame[th].known :
                (k \notin frame[th].gone /\ Matches(th, k)) =>
                    /\ Cardinality(CallsOf(th, k)) = 1
                    /\ \A i \in CallsOf(th, k) : frame[th].invoked[i].arg = frame[th].arg

\* A notify returned having called a subscription made after another one
\* (so the table was cloned with a subscription in it).
C1_Witness ==
    \E th \in Threads :
        /\ pc[th] = "notify_ret"
        /\ frame[th].arg = 2
        /\ \E k \in 1..frame[th].known :
              /\ k \notin frame[th].gone /\ Matches(th, k)
              /\ Len(tokens) > k
              /\ Cardinality(CallsOf(th, k)) = 1

\* C2: notify_tagged(t, args) calls only observers subscribed under tag t.
C2_TagRouting ==
    \A th \in Threads :
        pc[th] = "notify_ret" =>
            \A i \in 1..Len(frame[th].invoked) :
                tokens[frame[th].invoked[i].sub].tag = frame[th].tag

\* A notify for one tag called an observer while an observer of the same
\* signature is registered under the other tag.
C2_Witness ==
    \E th \in Threads :
        /\ pc[th] = "notify_ret"
        /\ frame[th].invoked # <<>>
        /\ \E t \in Tags \ {frame[th].tag} :
              \E k \in Range(Registered[t]) : tokens[k].sig = frame[th].sig

\* C3: a notify that starts after a token's unsubscribe returned does not
\* call that token's observer.
C3_NotCalledAfterUnsubscribe ==
    \A th \in Threads :
        pc[th] = "notify_ret" =>
            \A i \in 1..Len(frame[th].invoked) :
                frame[th].invoked[i].sub \notin frame[th].gone

\* A notify matching an unsubscribed token returned and called a later
\* subscription of the same observer.
C3_Witness ==
    \E th \in Threads :
        /\ pc[th] = "notify_ret"
        /\ frame[th].invoked # <<>>
        /\ \E k \in frame[th].gone :
              /\ Matches(th, k)
              /\ \E i \in 1..Len(frame[th].invoked) :
                    /\ frame[th].invoked[i].sub > k
                    /\ tokens[frame[th].invoked[i].sub].fn = tokens[k].fn

\* C4: the steps of a token's unsubscribe action that runs after the action
\* has already returned once leave the registered observers as they are.
C4_UnsubscribeIdempotent ==
    [][\A th \in Threads :
          (frame[th].op = "unsubscribe" /\ frame[th].again) => Registered' = Registered]_vars

\* A second run of a token's action returned while a later subscription
\* of the same observer under the same tag is registered.
C4_Witness ==
    \E th \in Threads :
        /\ pc[th] = "unsubscribe_ret"
        /\ frame[th].again
        /\ alive
        /\ \E k \in Range(Registered[frame[th].tag]) :
              /\ k > frame[th].tok
              /\ tokens[k].fn = tokens[frame[th].tok].fn

\* C5: a notify calls the observers of one tag and signature in the order
\* of their subscribe calls (subscriptions are numbered in that order).
C5_DispatchOrder ==
    \A th \in Threads :
        pc[th] = "notify_ret" =>
            \A i, j \in 1..Len(frame[th].invoked) :
                i < j => frame[th].invoked[i].sub < frame[th].invoked[j].sub

\* A notify called two observers, the second one by a subscription made
\* after the first one's, while an earlier subscription of that second
\* observer is unsubscribed.
C5_Witness ==
    \E th \in Threads :
        /\ pc[th] = "notify_ret"
        /\ Len(frame[th].invoked) = 2
        /\ tokens[frame[th].invoked[2].sub].fn # tokens[frame[th].invoked[1].sub].fn
        /\ \E k \in frame[th].gone :
              /\ k < frame[th].invoked[1].sub
              /\ Matches(th, k)
              /\ tokens[k].fn = tokens[frame[th].invoked[2].sub].fn

\* C6: the steps of a notify_tagged(t, args) for a tag t with no entry in
\* the current table leave functions_ and every table as they are, create
\* no entry for t, and the call returns without calling an observer.
C6_NotifyUnknownTag ==
    [][\A th \in Threads :
          (/\ pc[th] \in {"notify_load", "notify_find"}
           /\ pc'[th] # pc[th]
           /\ ~find(heap[functions_].map, frame[th].tag).present)
          => /\ functions_' = functions_
             /\ heap' = heap
             /\ pc'[th] \in {"notify_find", "notify_ret"}
             /\ frame'[th].invoked = <<>>]_vars

\* A notify for a tag without entry returned while the other tag holds an
\* observer of the notified signature.
C6_Witness ==
    \E th \in Threads :
        /\ pc[th] = "notify_ret"
        /\ ~find(heap[functions_].map, frame[th].tag).present
        /\ \E t \in Tags : \E k \in Range(Registered[t]) : tokens[k].sig = frame[th].sig

\* C7: once the subject is destroyed, a token's unsubscribe action returns
\* at the liveness check: no thread gets to snapshot, find or remove, and
\* no fault occurs.
C7_UnsubscribeAfterDestroy ==
    ~alive =>
        /\ fault = "none"
        /\ \A th \in Threads : pc[th] \in {"idle", "unsubscribe_ret"}
        /\ functions_ = NoTable
        /\ \A i \in TableIds : ~heap[i].live

\* A token's unsubscribe action returned after the subject was destroyed,
\* for a token that had not been unsubscribed while the subject lived.
C7_Witness ==
    \E th \in Threads :
        /\ ~alive
        /\ pc[th] = "unsubscribe_ret"
        /\ ~frame[th].again

\* C8: while a notify holds the table it loaded, no step of another thread
\* changes that table.
C8_SnapshotImmutable ==
    [][\A n \in Threads :
          (pc[n] \in {"notify_find", "notify_call"} /\ pc'[n] = pc[n])
          => heap'[frame[n].ref] = heap[frame[n].ref]]_vars

\* C9: the current table never holds the observer of a token whose
\* unsubscribe action has returned.
C9_UnsubscribedStaysOut ==
    \A k \in unsubscribed :
        \A t \in Tags : k \notin Range(Registered[t])

\* A thread at a statement that reads functions_ without the mutex, and a
\* thread at the statement of snapshot that assigns functions_.
ReadsHandleUnlocked(th) == pc[th] \in {"notify_load", "subscribe_index", "unsubscribe_find"}
WritesHandle(th) == pc[th] = "snapshot_copy"

\* C10: no thread is at a write of functions_ while another thread is at
\* an access of functions_ made without the mutex.
C10_NoHandleRace ==
    ~\E w, r \in Threads : w # r /\ WritesHandle(w) /\ ReadsHandleUnlocked(r)

\* C11: no call is ever stuck: a thread inside a subscribe, unsubscribe or
\* notify call can take its next step, or it waits for the mutex and the
\* thread that holds the mutex can take its next step.
C11_EveryCallProceeds ==
    \A th \in Threads :
        pc[th] # "idle" =>
            \/ ENABLED Step(th)
            \/ /\ pc[th] = "snapshot_lock"
               /\ mutex_ \in Threads \ {th}
               /\ ENABLED Step(mutex_)

\* The statements of notify_tagged after its entry.
InNotify(th) == pc[th] \in {"notify_load", "notify_find", "notify_call", "notify_ret"}

\* C12: a thread inside notify_tagged never holds the mutex, and while
\* another thread holds the mutex it still has an enabled next step.
C12_NotifyNeverWaits ==
    \A n \in Threads :
        InNotify(n) =>
            /\ mutex_ # n
            /\ mutex_ # 0 => ENABLED NotifyStep(n)

\* A notify is about to read functions_ while another thread is inside
\* the locked part of snapshot.
C12_Witness ==
    \E n, w \in Threads :
        /\ n # w
        /\ pc[n] = "notify_load"
        /\ mutex_ = w
        /\ pc[w] = "snapshot_copy"

\* C13: notify_tagged(t, args) calls only observers whose normalized
\* signature is the signature of args; observers of another signature
\* stored under t are not called, and with no observer of that signature
\* under t nothing is called.
C13_SignatureIsolation ==
    \A th \in Threads :
        pc[th] = "notify_ret" =>
            /\ \A i \in 1..Len(frame[th].invoked) :
                  tokens[frame[th].invoked[i].sub].sig = frame[th].sig
            /\ (alive /\ \A k \in Range(Registered[frame[th].tag]) :
                              tokens[k].sig # frame[th].sig)
                  => frame[th].invoked = <<>>

\* A notify returned having called an observer while an observer of the
\* other signature is registered under the same tag.
C13_Witness ==
    \E th \in Threads :
        /\ pc[th] = "notify_ret"
        /\ frame[th].invoked # <<>>
        /\ \E k \in Range(Registered[frame[th].tag]) :
              /\ tokens[k].sig # frame[th].sig
              /\ CallsOf(th, k) = {}

\* C16: two subscriptions under the same tag never have the same
\* identifier, whether or not the earlier one was removed and however many
\* times the table was cloned in between.
C16_IdentifierNeverReused ==
    \A k1, k2 \in 1..Len(tokens) :
        (k1 # k2 /\ tokens[k1].tag = tokens[k2].tag) => tokens[k1].id # tokens[k2].id

\* A tag whose first subscription was removed, leaving its collection
\* empty, and that has a later subscription registered.
C16_Witness ==
    \E k1, k2 \in 1..Len(tokens) :
        /\ k1 < k2
        /\ tokens[k1].tag = tokens[k2].tag
        /\ k1 \in unsubscribed
        /\ Registered[tokens[k2].tag] = <<k2>>
        /\ tokens[k2].id > tokens[k1].id

\* C17: a step of a token's unsubscribe action changes the dispatch
\* sequences at most by taking that token's observer out: every other
\* observer, under every tag, stays registered in the same relative order.
C17_UnsubscribeFrame ==
    [][\A th \in Threads :
          frame[th].op = "unsubscribe" =>
              \A t \in Tags :
                  \/ Registered'[t] = Registered[t]
                  \/ Registered'[t] = SelectSeq(Registered[t], LAMBDA k : k # frame[th].tok)]_vars

\* An unsubscribe removed an observer that had an earlier and a later
\* observer registered under its tag; both are still registered.
C17_Witness ==
    \E th \in Threads :
        /\ pc[th] = "unsubscribe_ret"
        /\ ~frame[th].again
        /\ \E i \in 1..Len(Registered[frame[th].tag]) - 1 :
              /\ Registered[frame[th].tag][i] < frame[th].tok
              /\ frame[th].tok < Registered[frame[th].tag][i + 1]

\* Tag { }: the value-initialised std::string.
DefaultTag == ""

\* What notify_tagged(Tag { }, arguments ...) calls in the current state.
DefaultTagCalls(sig, arg) == call(find(heap[functions_].map, DefaultTag), sig, arg)

\* C14: a subscription made without a tag is one made under Tag { } (it
\* is recorded and registered under that tag), and a notify_untagged has
\* called exactly the observers notify_tagged(Tag { }, ...) calls, so
\* subscriptions of either overload are reached by notifies of either.
C14_UntaggedIsDefaultTag ==
    /\ \A k \in 1..Len(tokens) :
          tokens[k].untagged =>
              /\ tokens[k].tag = DefaultTag
              /\ \A t \in Tags \ {DefaultTag} : k \notin Range(Registered[t])
              /\ (alive /\ k \notin unsubscribed /\ \A th \in Threads : pc[th] = "idle")
                    => k \in Range(Registered[DefaultTag])
    /\ \A th \in Threads :
          (pc[th] = "notify_ret" /\ (frame[th].untagged \/ frame[th].tag = DefaultTag)) =>
              frame[th].invoked = DefaultTagCalls(frame[th].sig, frame[th].arg)

\* A notify_untagged returned having called an observer subscribed
\* without a tag and an observer subscribed with the default tag value.
C14_Witness ==
    \E th \in Threads :
        /\ pc[th] = "notify_ret"
        /\ frame[th].untagged
        /\ \E i, j \in 1..Len(frame[th].invoked) :
              /\ tokens[frame[th].invoked[i].sub].untagged
              /\ ~tokens[frame[th].invoked[j].sub].untagged

\* C15: when no call is in progress and no token has been unsubscribed,
\* the current table holds the observer of every subscribe that returned.
C15_NoLostSubscription ==
    (alive /\ unsubscribed = {} /\ \A th \in Threads : pc[th] = "idle") =>
        \A k \in 1..Len(tokens) : k \in Range(Registered[tokens[k].tag])

\* C18: after a move, a notify on the subject calls the observers
\* subscribed before the move, and no unsubscribe action of a token reads
\* through the empty handle of the object moved from.
C18_MoveKeepsSubscriptions ==
    /\ fault # "null handle"
    /\ \A th \in Threads :
          pc[th] = "notify_ret" =>
              \A k \in 1..frame[th].known :
                  (tokens[k].this # owner /\ k \notin frame[th].gone /\ Matches(th, k))
                      => Cardinality(CallsOf(th, k)) = 1

\* C19: a call an observer makes on the subject from inside its callback
\* never finds the mutex locked, and a notify whose observers subscribed
\* and unsubscribed during the dispatch has called exactly the observers
\* of the table it loaded, once each: none subscribed during the dispatch,
\* and every one unsubscribed during the dispatch.
C19_ReentrantDispatch ==
    /\ \A th \in Threads : pc[th] = "snapshot_lock" => mutex_ = 0
    /\ \A th \in Threads :
          pc[th] = "notify_ret" =>
              \A k \in 1..Len(tokens) :
                  Cardinality(CallsOf(th, k)) =
                      IF k <= frame[th].known /\ k \notin frame[th].gone /\ Matches(th, k)
                      THEN 1 ELSE 0

\* A notify returned after an observer subscribed during the dispatch and
\* after it called an observer that had been unsubscribed during the
\* dispatch before it was reached.
C19_Witness ==
    \E th \in Threads :
        /\ pc[th] = "notify_ret"
        /\ \E k \in (frame[th].known + 1)..Len(tokens) : Matches(th, k)
        /\ frame[th].early \ frame[th].gone # {}

====
